---- MODULE Spec2Model ----
(***************************************************************************)
(* A model of the two example scripts of the repository:                   *)
(*                                                                         *)
(*   src/examples/help/help.py     the operation runner (cp, ls, cat,      *)
(*                                 stall)                                  *)
(*   src/examples/tutorial/2/run.py  the encode/decode runner              *)
(*                                                                         *)
(* One behaviour is one invocation of one script.  Text (str) is a         *)
(* sequence of Unicode code points, captured process output (bytes) is a   *)
(* sequence of numbers 0..255.  The command name and the names of the      *)
(* environment variables are only ever compared, so they are TLA+ strings. *)
(***************************************************************************)
EXTENDS Integers, Sequences, FiniteSets, TLC

\* ------------------------------------------------------------------ bounds

\* Longest text drawn for the INPUT variable of run.py.
MaxInputLen == 2
\* Longest text drawn for the NSECONDS variable of help.py.
MaxNsLen == 2
\* Longest byte string an external command leaves on one of its streams.
MaxStreamLen == 2
\* Latest clock reading at which the process is started.
MaxStart == 1
\* The loop-iteration counter of stall saturates here.
MaxIters == 2

\* ------------------------------------------------------------ text literals

\* "success"
Success == <<115, 117, 99, 99, 101, 115, 115>>
\* "<no output>"
NoOutput == <<60, 110, 111, 32, 111, 117, 116, 112, 117, 116, 62>>
\* "Stderr:\n"
StderrHead == <<83, 116, 100, 101, 114, 114, 58, 10>>
\* "\n\nStderr:\n"
StderrTail == <<10, 10>> \o StderrHead
\* "hello" and "aGVsbG8=", the tutorial's example value and its encoding
Hello == <<104, 101, 108, 108, 111>>
HelloB64 == <<97, 71, 86, 115, 98, 71, 56, 61>>

\* The result of a call that may raise: the value returned, or the exception.
Ok(v) == [ok |-> TRUE, val |-> v, exc |-> "none"]
Raise(e) == [ok |-> FALSE, val |-> <<>>, exc |-> e]

\* ------------------------------------------------------------------ UTF-8

\* str.encode("utf-8") of one code point: lone surrogates cannot be encoded.
IsSurrogate(c) == c >= 55296 /\ c <= 57343

EncodeCodePoint(c) ==
    IF c < 128 THEN <<c>>
    ELSE IF c < 2048 THEN <<192 + (c \div 64), 128 + (c % 64)>>
    ELSE IF c < 65536
         THEN <<224 + (c \div 4096), 128 + ((c \div 64) % 64), 128 + (c % 64)>>
    ELSE <<240 + (c \div 262144), 128 + ((c \div 4096) % 64),
           128 + ((c \div 64) % 64), 128 + (c % 64)>>

RECURSIVE Utf8Bytes(_)
Utf8Bytes(s) ==
    IF s = <<>> THEN <<>> ELSE EncodeCodePoint(Head(s)) \o Utf8Bytes(Tail(s))

\* s.encode("utf-8")
Utf8Encode(s) ==
    IF \E i \in 1..Len(s) : IsSurrogate(s[i])
    THEN Raise("UnicodeEncodeError")
    ELSE Ok(Utf8Bytes(s))

IsCont(b) == b >= 128 /\ b <= 191

\* The length of the well-formed UTF-8 sequence b starts with, 0 if there is none.
SeqLenAt(b) ==
    IF b = <<>> THEN 0
    ELSE IF b[1] < 128 THEN 1
    ELSE IF b[1] >= 194 /\ b[1] <= 223
         THEN IF Len(b) >= 2 /\ IsCont(b[2]) THEN 2 ELSE 0
    ELSE IF b[1] >= 224 /\ b[1] <= 239
         THEN IF /\ Len(b) >= 3
                 /\ IsCont(b[2])
                 /\ IsCont(b[3])
                 /\ (b[1] = 224 => b[2] >= 160)
                 /\ (b[1] = 237 => b[2] <= 159)
              THEN 3 ELSE 0
    ELSE IF b[1] >= 240 /\ b[1] <= 244
         THEN IF /\ Len(b) >= 4
                 /\ IsCont(b[2])
                 /\ IsCont(b[3])
                 /\ IsCont(b[4])
                 /\ (b[1] = 240 => b[2] >= 144)
                 /\ (b[1] = 244 => b[2] <= 143)
              THEN 4 ELSE 0
    ELSE 0

DecodeCodePoint(b, n) ==
    IF n = 1 THEN b[1]
    ELSE IF n = 2 THEN (b[1] - 192) * 64 + (b[2] - 128)
    ELSE IF n = 3 THEN (b[1] - 224) * 4096 + (b[2] - 128) * 64 + (b[3] - 128)
    ELSE (b[1] - 240) * 262144 + (b[2] - 128) * 4096
         + (b[3] - 128) * 64 + (b[4] - 128)

RECURSIVE Utf8Valid(_)
Utf8Valid(b) ==
    \/ b = <<>>
    \/ /\ SeqLenAt(b) > 0
       /\ Utf8Valid(SubSeq(b, SeqLenAt(b) + 1, Len(b)))

RECURSIVE Utf8Text(_)
Utf8Text(b) ==
    IF b = <<>> THEN <<>>
    ELSE <<DecodeCodePoint(b, SeqLenAt(b))>>
         \o Utf8Text(SubSeq(b, SeqLenAt(b) + 1, Len(b)))

\* b.decode("utf-8")
Utf8Decode(b) ==
    IF Utf8Valid(b) THEN Ok(Utf8Text(b)) ELSE Raise("UnicodeDecodeError")

\* ------------------------------------------------------------------ base64

PadChar == <<61>>

\* The character of the 6-bit value v in the standard alphabet.
B64Char(v) ==
    IF v < 26 THEN 65 + v
    ELSE IF v < 52 THEN 97 + (v - 26)
    ELSE IF v < 62 THEN 48 + (v - 52)
    ELSE IF v = 62 THEN 43
    ELSE 47

\* The 6-bit value of character c, 64 when c is not of the alphabet.
B64Value(c) ==
    IF c >= 65 /\ c <= 90 THEN c - 65
    ELSE IF c >= 97 /\ c <= 122 THEN c - 97 + 26
    ELSE IF c >= 48 /\ c <= 57 THEN c - 48 + 52
    ELSE IF c = 43 THEN 62
    ELSE IF c = 47 THEN 63
    ELSE 64

\* The characters of one group of one to three bytes, without padding.
B64Group(b) ==
    IF Len(b) = 3
    THEN <<B64Char(b[1] \div 4),
           B64Char((b[1] % 4) * 16 + (b[2] \div 16)),
           B64Char((b[2] % 16) * 4 + (b[3] \div 64)),
           B64Char(b[3] % 64)>>
    ELSE IF Len(b) = 2
    THEN <<B64Char(b[1] \div 4),
           B64Char((b[1] % 4) * 16 + (b[2] \div 16)),
           B64Char((b[2] % 16) * 4)>>
    ELSE <<B64Char(b[1] \div 4), B64Char((b[1] % 4) * 16)>>

\* A faulty B64Pad: the encoding is left unpadded.
B64PadNone(n) == <<>>

\* The pad characters that fill a group of n bytes up to four characters.
B64Pad(n) == IF n = 1 THEN PadChar \o PadChar ELSE IF n = 2 THEN PadChar ELSE <<>>

\* base64.b64encode(b), as text
RECURSIVE B64Encode(_)
B64Encode(b) ==
    IF b = <<>> THEN <<>>
    ELSE IF Len(b) >= 3
    THEN B64Group(SubSeq(b, 1, 3)) \o B64Encode(SubSeq(b, 4, Len(b)))
    ELSE B64Group(b) \o B64Pad(Len(b))

\* binascii.a2b_base64 (not strict), which base64.b64decode calls: the scan
\* of the characters from position i, with quad (characters of the current
\* group read so far), left (the bits carried over) and pads (pad characters
\* just seen); characters outside the alphabet are skipped.
RECURSIVE A2bScan(_, _, _, _, _, _)
A2bScan(s, i, quad, left, pads, acc) ==
    IF i > Len(s)
    THEN IF quad = 0 THEN Ok(acc) ELSE Raise("binascii.Error")
    ELSE IF s[i] = 61
    THEN IF quad >= 2 /\ quad + pads + 1 >= 4
         THEN Ok(acc)
         ELSE A2bScan(s, i + 1, quad, left,
                      IF quad >= 2 THEN pads + 1 ELSE pads, acc)
    ELSE IF B64Value(s[i]) >= 64
    THEN A2bScan(s, i + 1, quad, left, pads, acc)
    ELSE IF quad = 0
    THEN A2bScan(s, i + 1, 1, B64Value(s[i]), 0, acc)
    ELSE IF quad = 1
    THEN A2bScan(s, i + 1, 2, B64Value(s[i]) % 16, 0,
                 Append(acc, left * 4 + (B64Value(s[i]) \div 16)))
    ELSE IF quad = 2
    THEN A2bScan(s, i + 1, 3, B64Value(s[i]) % 4, 0,
                 Append(acc, left * 16 + (B64Value(s[i]) \div 4)))
    ELSE A2bScan(s, i + 1, 0, 0, 0, Append(acc, left * 64 + B64Value(s[i])))

\* base64.b64decode(s) of a str: the text must be ASCII.
B64Decode(s) ==
    IF \E i \in 1..Len(s) : s[i] >= 128
    THEN Raise("ValueError")
    ELSE A2bScan(s, 1, 0, 0, 0, <<>>)

\* s.replace("\n", "")
RECURSIVE StripNewlines(_)
StripNewlines(s) ==
    IF s = <<>> THEN <<>>
    ELSE IF Head(s) = 10 THEN StripNewlines(Tail(s))
    ELSE <<Head(s)>> \o StripNewlines(Tail(s))

\* ------------------------------------------------- run.py: the two functions

\* decode(s): strip the newlines, base64-decode, read the bytes as UTF-8.
decode(s) ==
    LET b == B64Decode(StripNewlines(s))
    IN  IF b.ok THEN Utf8Decode(b.val) ELSE b

\* encode(s): the UTF-8 bytes of s, base64-encoded, as text.
encode(s) ==
    LET b == Utf8Encode(s)
    IN  IF b.ok THEN Ok(B64Encode(b.val)) ELSE b

\* ------------------------------------------------------ help.py: int(text)

IsSpace(c) == c = 32 \/ (c >= 9 /\ c <= 13)
IsDigit(c) == c >= 48 /\ c <= 57

RECURSIVE LStrip(_)
LStrip(s) == IF s # <<>> /\ IsSpace(Head(s)) THEN LStrip(Tail(s)) ELSE s

RECURSIVE RStrip(_)
RStrip(s) ==
    IF s # <<>> /\ IsSpace(s[Len(s)]) THEN RStrip(SubSeq(s, 1, Len(s) - 1)) ELSE s

\* The value of a run of digits and underscores, read after acc.
RECURSIVE DigitsValue(_, _)
DigitsValue(d, acc) ==
    IF d = <<>> THEN acc
    ELSE IF Head(d) = 95 THEN DigitsValue(Tail(d), acc)
    ELSE DigitsValue(Tail(d), acc * 10 + (Head(d) - 48))

\* Digits, with single underscores between them only.
WellFormedDigits(d) ==
    /\ d # <<>>
    /\ IsDigit(d[1])
    /\ IsDigit(d[Len(d)])
    /\ \A i \in 1..Len(d) : IsDigit(d[i]) \/ d[i] = 95
    /\ \A i \in 1..(Len(d) - 1) : ~(d[i] = 95 /\ d[i + 1] = 95)

\* int(s) of a str: surrounding white space, an optional sign, decimal digits.
ParseInt(s) ==
    LET t == RStrip(LStrip(s))
        signed == t # <<>> /\ (t[1] = 43 \/ t[1] = 45)
        d == IF signed THEN Tail(t) ELSE t
    IN  IF WellFormedDigits(d)
        THEN Ok(IF signed /\ t[1] = 45 THEN 0 - DigitsValue(d, 0)
                ELSE DigitsValue(d, 0))
        ELSE Raise("ValueError")

\* ------------------------------------------------------------------ inputs

RECURSIVE TextsUpTo(_, _)
\* Every sequence over alphabet of length at most n.
TextsUpTo(alphabet, n) ==
    IF n = 0 THEN {<<>>}
    ELSE LET shorter == TextsUpTo(alphabet, n - 1)
         IN  shorter \cup {Append(s, c) : s \in shorter, c \in alphabet}

\* The code points INPUT is drawn from: a, =, newline, e-acute, the euro sign,
\* an emoji (one to four bytes of UTF-8) and the lone surrogate that
\* os.environ gives for a byte of the environment that is not UTF-8.
InputAlphabet == {97, 61, 10, 233, 8364, 128512, 56448}
PlainTexts == TextsUpTo(InputAlphabet, MaxInputLen) \cup {Hello}
\* What a caller hands to decode: any text, an encoded text, or an encoded
\* text wrapped with a newline.
EncodedTexts == {encode(s).val : s \in {x \in PlainTexts : encode(x).ok}}
InputTexts ==
    PlainTexts \cup EncodedTexts \cup {Append(e, 10) : e \in EncodedTexts}

\* The characters NSECONDS is drawn from: 0, 1, -, x.
NsAlphabet == {48, 49, 45, 120}
NsTexts == TextsUpTo(NsAlphabet, MaxNsLen)

\* The bytes on a stream of an external command: a, and the two bytes of
\* e-acute, each of which alone is not UTF-8.
StreamAlphabet == {97, 195, 169}
Streams == TextsUpTo(StreamAlphabet, MaxStreamLen)

\* "/x", the one path given.
PathTexts == {<<47, 120>>}

VarNames == {"SOURCE", "TARGET", "DIRECTORY", "FILE", "NSECONDS", "INPUT"}
CommandNames == {"cp", "ls", "cat", "stall", "encode", "decode", "rot13"}
HelpCommands == {"cp", "ls", "cat", "stall"}

Unset == [set |-> FALSE, text |-> <<>>]
SetTo(t) == [set |-> TRUE, text |-> t]

\* The variables a command of a script reads.
Required(s, c) ==
    IF s = "help" /\ c = "cp" THEN {"SOURCE", "TARGET"}
    ELSE IF s = "help" /\ c = "ls" THEN {"DIRECTORY"}
    ELSE IF s = "help" /\ c = "cat" THEN {"FILE"}
    ELSE IF s = "help" /\ c = "stall" THEN {"NSECONDS"}
    ELSE IF s = "run" /\ (c = "encode" \/ c = "decode") THEN {"INPUT"}
    ELSE {}

ValuesOf(v) ==
    IF v = "NSECONDS" THEN NsTexts
    ELSE IF v = "INPUT" THEN InputTexts
    ELSE PathTexts

\* The environments of an invocation.  A variable the dispatched branch never
\* reads is left unset: no statement of either script looks at it.
Choices(v, req) ==
    IF v \in req THEN {Unset} \cup {SetTo(t) : t \in ValuesOf(v)} ELSE {Unset}

Environments(req) ==
    {[SOURCE |-> a, TARGET |-> b, DIRECTORY |-> c, FILE |-> d,
      NSECONDS |-> e, INPUT |-> f] :
        a \in Choices("SOURCE", req), b \in Choices("TARGET", req),
        c \in Choices("DIRECTORY", req), d \in Choices("FILE", req),
        e \in Choices("NSECONDS", req), f \in Choices("INPUT", req)}

\* sys.argv: the script alone, with a command, or with a command and one
\* more argument (which neither script looks at).
Argvs(s) ==
    {<<s>>} \cup {<<s, c>> : c \in CommandNames}
            \cup {<<s, c, "value">> : c \in CommandNames}

\* The latest clock reading of the model: every stall that is entered can
\* see its seconds pass.
NsInts == {ParseInt(s).val : s \in {x \in NsTexts : ParseInt(x).ok}}
Horizon == MaxStart + (CHOOSE n \in NsInts : \A m \in NsInts : m <= n)

\* ------------------------------------------------------------------- state

VARIABLES
    script,     \* which script runs: "help" (help.py) or "run" (run.py)
    argv,       \* sys.argv: the script, then the command if one is given
    env,        \* os.environ, restricted to the six variables
    clock,      \* time.time(), in seconds
    pc,         \* the statement the process is at; "exited" when it is over
    command,    \* the local command
    source,     \* help.py: the value read for SOURCE
    target,     \* help.py: the value read for TARGET
    path,       \* help.py: the value read for DIRECTORY or FILE
    n_seconds,  \* help.py: NSECONDS, parsed or, when int() failed, as read
    value,      \* run.py: the value read for INPUT
    out,        \* the bytes communicate() returned for the standard output
    err,        \* the bytes communicate() returned for the standard error
    output,     \* run.py: what the function returned
    now,        \* stall: the clock reading at entry
    iters,      \* stall: the iterations of the busy loop so far (saturating)
    stdout,     \* what the process printed on standard output, in order
    stderr,     \* what was written on standard error, in order
    status,     \* the exit status, once pc = "exited"
    exc,        \* the exception that ended the process, "none" otherwise
    started,    \* the external commands started, in order
    envReads,   \* the variables looked up in os.environ
    opState,    \* the requested operation: "none", "running" or "done"
    chainFrom   \* the text whose encoding this run was given as INPUT, if any

locals == <<command, source, target, path, n_seconds, value, out, err, output,
            now, iters>>
inputs == <<script, argv, env, chainFrom>>
effects == <<stdout, stderr, status, exc, started, envReads, opState>>
vars == <<inputs, clock, pc, locals, effects>>

IntValue(n) == [kind |-> "int", num |-> n, text |-> <<>>]
StrValue(s) == [kind |-> "str", num |-> 0, text |-> s]
NoValue == [kind |-> "none", num |-> 0, text |-> <<>>]

\* What print(yaml.dump({"output": o})) leaves on standard output.
Record(o) == [kind |-> "record", output |-> o]
\* The usage line of run.py.
UsageLine == [kind |-> "usage", output |-> <<>>]
\* The lines written on standard error.
NoCommandLine == [kind |-> "no_command", text |-> <<>>]
ParseErrorLine(raw) == [kind |-> "parse_error", text |-> raw]
Traceback == [kind |-> "traceback", text |-> <<>>]

NumRecords == Cardinality({i \in 1..Len(stdout) : stdout[i].kind = "record"})

Fresh ==
    /\ pc = "main"
    /\ command = ""
    /\ source = <<>>
    /\ target = <<>>
    /\ path = <<>>
    /\ n_seconds = NoValue
    /\ value = <<>>
    /\ out = <<>>
    /\ err = <<>>
    /\ output = <<>>
    /\ now = 0
    /\ iters = 0
    /\ stdout = <<>>
    /\ stderr = <<>>
    /\ status = 0
    /\ exc = "none"
    /\ started = <<>>
    /\ envReads = {}
    /\ opState = "none"

Init ==
    /\ script \in {"help", "run"}
    /\ argv \in Argvs(script)
    /\ env \in Environments(IF Len(argv) > 1 THEN Required(script, argv[2]) ELSE {})
    /\ clock \in 0..MaxStart
    /\ chainFrom = Unset
    /\ Fresh

\* ------------------------------------------------------- ending the process

\* exit(code), or the end of the script (code 0).
Exit(code) ==
    /\ pc' = "exited"
    /\ status' = code
    /\ exc' = "none"

\* An exception nothing catches: the traceback goes to standard error and
\* the interpreter ends with status 1.
Crash(e) ==
    /\ pc' = "exited"
    /\ status' = 1
    /\ exc' = e
    /\ stderr' = Append(stderr, Traceback)

\* A faulty Emit: the record is printed twice.
EmitTwice(o) == Append(Append(stdout, Record(o)), Record(o))

\* print(yaml.dump({"output": o}))
Emit(o) == Append(stdout, Record(o))

\* ---------------------------------------------- help.py: the three commands

\* cp: "success", or the error text when the command wrote any.
cp(o, e) ==
    IF Len(e) > 0
    THEN LET d == Utf8Decode(e)
         IN  IF d.ok THEN Ok(StderrHead \o d.val) ELSE d
    ELSE Ok(Success)

\* A faulty ls: the error text replaces the output, as it does in cp.
lsOverwriting(o, e) ==
    LET first == IF Len(o) > 0 THEN Utf8Decode(o) ELSE Ok(NoOutput)
        d == Utf8Decode(e)
    IN  IF ~first.ok THEN first
        ELSE IF Len(e) > 0
        THEN IF d.ok THEN Ok(StderrTail \o d.val) ELSE d
        ELSE first

\* ls: the output text or the marker, then the error text if there is any.
ls(o, e) ==
    LET first == IF Len(o) > 0 THEN Utf8Decode(o) ELSE Ok(NoOutput)
        d == Utf8Decode(e)
    IN  IF ~first.ok THEN first
        ELSE IF Len(e) > 0
        THEN IF d.ok THEN Ok(first.val \o StderrTail \o d.val) ELSE d
        ELSE first

\* cat: as ls.
cat(o, e) ==
    LET first == IF Len(o) > 0 THEN Utf8Decode(o) ELSE Ok(NoOutput)
        d == Utf8Decode(e)
    IN  IF ~first.ok THEN first
        ELSE IF Len(e) > 0
        THEN IF d.ok THEN Ok(first.val \o StderrTail \o d.val) ELSE d
        ELSE first

\* The rest of a function once its output message r is built, and the
\* exit(...) around the call: the record is printed and the process ends
\* with the value returned, unless building the message raised.
Report(r, code) ==
    IF r.ok
    THEN /\ stdout' = Emit(r.val)
         /\ Exit(code)
         /\ UNCHANGED stderr
    ELSE /\ Crash(r.exc)
         /\ UNCHANGED stdout

\* subprocess.Popen([prog] + args, ...) and p.communicate(): the command runs
\* to its end and leaves any bytes on its two streams.
Communicate(prog, args, next) ==
    \E o \in Streams, e \in Streams :
        /\ started' = Append(started, [prog |-> prog, args |-> args])
        /\ out' = o
        /\ err' = e
        /\ opState' = "done"
        /\ pc' = next

\* ------------------------------------------------------ help.py: __main__

\* A faulty HelpNoCommand: the notice is printed on standard output.
HelpNoCommandToStdout ==
    /\ script = "help"
    /\ pc = "main"
    /\ Len(argv) <= 1
    /\ stdout' = Append(stdout, [kind |-> "no_command", output |-> <<>>])
    /\ Exit(-1)
    /\ UNCHANGED <<inputs, clock, locals, stderr, started, envReads, opState>>

\* No command: the notice on standard error, exit(-1).
HelpNoCommand ==
    /\ script = "help"
    /\ pc = "main"
    /\ Len(argv) <= 1
    /\ stderr' = Append(stderr, NoCommandLine)
    /\ Exit(-1)
    /\ UNCHANGED <<inputs, clock, locals, stdout, started, envReads, opState>>

\* command = sys.argv[1]
HelpCommand ==
    /\ script = "help"
    /\ pc = "main"
    /\ Len(argv) > 1
    /\ command' = argv[2]
    /\ pc' = "dispatch"
    /\ UNCHANGED <<inputs, clock, source, target, path, n_seconds, value, out,
                   err, output, now, iters, effects>>

DispatchCp ==
    /\ pc = "dispatch"
    /\ command = "cp"
    /\ IF ~env.SOURCE.set
       THEN /\ envReads' = envReads \cup {"SOURCE"}
            /\ Crash("KeyError")
            /\ UNCHANGED <<source, target>>
       ELSE IF ~env.TARGET.set
       THEN /\ envReads' = envReads \cup {"SOURCE", "TARGET"}
            /\ source' = env.SOURCE.text
            /\ Crash("KeyError")
            /\ UNCHANGED target
       ELSE /\ envReads' = envReads \cup {"SOURCE", "TARGET"}
            /\ source' = env.SOURCE.text
            /\ target' = env.TARGET.text
            /\ pc' = "cp"
            /\ UNCHANGED <<stderr, status, exc>>
    /\ UNCHANGED <<inputs, clock, command, path, n_seconds, value, out, err,
                   output, now, iters, stdout, started, opState>>

\* The branches of ls and cat: one variable read into path.
ReadPath(var, next) ==
    /\ envReads' = envReads \cup {var}
    /\ IF ~env[var].set
       THEN /\ Crash("KeyError")
            /\ UNCHANGED path
       ELSE /\ path' = env[var].text
            /\ pc' = next
            /\ UNCHANGED <<stderr, status, exc>>
    /\ UNCHANGED <<inputs, clock, command, source, target, n_seconds, value,
                   out, err, output, now, iters, stdout, started, opState>>

DispatchLs ==
    /\ pc = "dispatch"
    /\ command = "ls"
    /\ ReadPath("DIRECTORY", "ls")

DispatchCat ==
    /\ pc = "dispatch"
    /\ command = "cat"
    /\ ReadPath("FILE", "cat")

\* A faulty DispatchStall: the run ends when int() raises ValueError.
DispatchStallAborting ==
    /\ pc = "dispatch"
    /\ command = "stall"
    /\ envReads' = envReads \cup {"NSECONDS"}
    /\ IF ~env.NSECONDS.set
       THEN /\ Crash("KeyError")
            /\ UNCHANGED n_seconds
       ELSE LET r == ParseInt(env.NSECONDS.text)
            IN  IF r.ok
                THEN /\ n_seconds' = IntValue(r.val)
                     /\ pc' = "stall"
                     /\ UNCHANGED <<stderr, status, exc>>
                ELSE /\ stderr' = Append(stderr, ParseErrorLine(env.NSECONDS.text))
                     /\ Exit(1)
                     /\ UNCHANGED n_seconds
    /\ UNCHANGED <<inputs, clock, command, source, target, path, value, out,
                   err, output, now, iters, stdout, started, opState>>

\* The stall branch: NSECONDS is read and parsed; when int() raises ValueError
\* the notice is written and n_seconds keeps the text that was read.
DispatchStall ==
    /\ pc = "dispatch"
    /\ command = "stall"
    /\ envReads' = envReads \cup {"NSECONDS"}
    /\ IF ~env.NSECONDS.set
       THEN /\ Crash("KeyError")
            /\ UNCHANGED n_seconds
       ELSE LET r == ParseInt(env.NSECONDS.text)
            IN  /\ n_seconds' = IF r.ok THEN IntValue(r.val)
                                ELSE StrValue(env.NSECONDS.text)
                /\ stderr' = IF r.ok THEN stderr
                             ELSE Append(stderr, ParseErrorLine(env.NSECONDS.text))
                /\ pc' = "stall"
                /\ UNCHANGED <<status, exc>>
    /\ UNCHANGED <<inputs, clock, command, source, target, path, value, out,
                   err, output, now, iters, stdout, started, opState>>

\* No branch of the if/elif chain takes the command: the script ends.
DispatchNone ==
    /\ pc = "dispatch"
    /\ command \notin HelpCommands
    /\ Exit(0)
    /\ UNCHANGED <<inputs, clock, locals, stdout, stderr, started, envReads,
                   opState>>

CpRun ==
    /\ pc = "cp"
    /\ Communicate("cp", <<source, target>>, "cp_report")
    /\ UNCHANGED <<inputs, clock, command, source, target, path, n_seconds,
                   value, output, now, iters, stdout, stderr, status, exc,
                   envReads>>

\* A faulty CpReport: the status is 1 when the command wrote error text.
CpReportFailing ==
    /\ pc = "cp_report"
    /\ Report(cp(out, err), IF Len(err) > 0 THEN 1 ELSE 0)
    /\ UNCHANGED <<inputs, clock, locals, started, envReads, opState>>

CpReport ==
    /\ pc = "cp_report"
    /\ Report(cp(out, err), 0)
    /\ UNCHANGED <<inputs, clock, locals, started, envReads, opState>>

LsRun ==
    /\ pc = "ls"
    /\ Communicate("ls", <<path>>, "ls_report")
    /\ UNCHANGED <<inputs, clock, command, source, target, path, n_seconds,
                   value, output, now, iters, stdout, stderr, status, exc,
                   envReads>>

LsReport ==
    /\ pc = "ls_report"
    /\ Report(ls(out, err), 0)
    /\ UNCHANGED <<inputs, clock, locals, started, envReads, opState>>

CatRun ==
    /\ pc = "cat"
    /\ Communicate("cat", <<path>>, "cat_report")
    /\ UNCHANGED <<inputs, clock, command, source, target, path, n_seconds,
                   value, output, now, iters, stdout, stderr, status, exc,
                   envReads>>

CatReport ==
    /\ pc = "cat_report"
    /\ Report(cat(out, err), 0)
    /\ UNCHANGED <<inputs, clock, locals, started, envReads, opState>>

\* ----------------------------------------------------------- help.py: stall

\* now = time.time()
StallEnter ==
    /\ pc = "stall"
    /\ now' = clock
    /\ opState' = "running"
    /\ pc' = "stall_loop"
    /\ UNCHANGED <<inputs, clock, command, source, target, path, n_seconds,
                   value, out, err, output, iters, stdout, stderr, status, exc,
                   started, envReads>>

\* A faulty StallCond: the clock reading at entry is not subtracted.
StallCondAbsolute(t, start, n) == t < n

\* time.time() - now < n_seconds
StallCond(t, start, n) == t - start < n

\* The loop condition compares a float with the str that int() refused.
StallTypeError ==
    /\ pc = "stall_loop"
    /\ n_seconds.kind = "str"
    /\ Crash("TypeError")
    /\ UNCHANGED <<inputs, clock, locals, stdout, started, envReads, opState>>

\* The condition holds: pass, and the condition is evaluated again.
StallWait ==
    /\ pc = "stall_loop"
    /\ n_seconds.kind = "int"
    /\ StallCond(clock, now, n_seconds.num)
    /\ iters' = IF iters < MaxIters THEN iters + 1 ELSE iters
    /\ UNCHANGED <<inputs, clock, pc, command, source, target, path, n_seconds,
                   value, out, err, output, now, effects>>

\* The condition fails: the loop is left.
StallLeave ==
    /\ pc = "stall_loop"
    /\ n_seconds.kind = "int"
    /\ ~StallCond(clock, now, n_seconds.num)
    /\ opState' = "done"
    /\ pc' = "stall_report"
    /\ UNCHANGED <<inputs, clock, locals, stdout, stderr, status, exc, started,
                   envReads>>

StallReport ==
    /\ pc = "stall_report"
    /\ Report(Ok(Success), 0)
    /\ UNCHANGED <<inputs, clock, locals, started, envReads, opState>>

\* A second passes on the clock the loop reads.  The clock never runs
\* backwards, and it is only read inside stall, so it need not move elsewhere.
Tick ==
    /\ pc = "stall_loop"
    /\ clock < Horizon
    /\ clock' = clock + 1
    /\ UNCHANGED <<inputs, pc, locals, effects>>

\* ------------------------------------------------------- run.py: __main__

FUNCTIONS == {"decode", "encode"}

\* FUNCTIONS[command](value)
Call(c, v) == IF c = "decode" THEN decode(v) ELSE encode(v)

\* len(sys.argv) < 2 or sys.argv[1] not in FUNCTIONS
NoFunction(a) == IF Len(a) < 2 THEN TRUE ELSE a[2] \notin FUNCTIONS

\* No command, or one that is not in FUNCTIONS: the usage line, exit(1).
RunUsage ==
    /\ script = "run"
    /\ pc = "main"
    /\ NoFunction(argv)
    /\ stdout' = Append(stdout, UsageLine)
    /\ Exit(1)
    /\ UNCHANGED <<inputs, clock, locals, stderr, started, envReads, opState>>

\* command = sys.argv[1]; value = os.environ["INPUT"]
RunRead ==
    /\ script = "run"
    /\ pc = "main"
    /\ ~NoFunction(argv)
    /\ command' = argv[2]
    /\ envReads' = envReads \cup {"INPUT"}
    /\ IF ~env.INPUT.set
       THEN /\ Crash("KeyError")
            /\ UNCHANGED value
       ELSE /\ value' = env.INPUT.text
            /\ pc' = "call"
            /\ UNCHANGED <<stderr, status, exc>>
    /\ UNCHANGED <<inputs, clock, source, target, path, n_seconds, out, err,
                   output, now, iters, stdout, started, opState>>

\* output = FUNCTIONS[command](value)
RunCall ==
    /\ pc = "call"
    /\ LET r == Call(command, value)
       IN  IF r.ok
           THEN /\ output' = r.val
                /\ opState' = "done"
                /\ pc' = "print"
                /\ UNCHANGED <<stderr, status, exc>>
           ELSE /\ Crash(r.exc)
                /\ UNCHANGED <<output, opState>>
    /\ UNCHANGED <<inputs, clock, command, source, target, path, n_seconds,
                   value, out, err, now, iters, stdout, started, envReads>>

\* print(yaml.dump({"output": output})), and the script ends.
RunPrint ==
    /\ pc = "print"
    /\ stdout' = Emit(output)
    /\ Exit(0)
    /\ UNCHANGED <<inputs, clock, locals, stderr, started, envReads, opState>>

\* The caller hands the output of a finished encode run to a new decode run
\* as its INPUT.
Reinvoke ==
    /\ script = "run"
    /\ pc = "exited"
    /\ command = "encode"
    /\ NumRecords = 1
    /\ ~chainFrom.set
    /\ script' = "run"
    /\ argv' = <<"run", "decode">>
    /\ env' = [env EXCEPT !.INPUT = SetTo(stdout[1].output)]
    /\ chainFrom' = SetTo(value)
    /\ clock' = clock
    /\ pc' = "main"
    /\ command' = ""
    /\ source' = <<>>
    /\ target' = <<>>
    /\ path' = <<>>
    /\ n_seconds' = NoValue
    /\ value' = <<>>
    /\ out' = <<>>
    /\ err' = <<>>
    /\ output' = <<>>
    /\ now' = 0
    /\ iters' = 0
    /\ stdout' = <<>>
    /\ stderr' = <<>>
    /\ status' = 0
    /\ exc' = "none"
    /\ started' = <<>>
    /\ envReads' = {}
    /\ opState' = "none"

\* ------------------------------------------------------------ specification

Next ==
    \/ HelpNoCommand
    \/ HelpCommand
    \/ DispatchCp
    \/ DispatchLs
    \/ DispatchCat
    \/ DispatchStall
    \/ DispatchNone
    \/ CpRun
    \/ CpReport
    \/ LsRun
    \/ LsReport
    \/ CatRun
    \/ CatReport
    \/ StallEnter
    \/ StallTypeError
    \/ StallWait
    \/ StallLeave
    \/ StallReport
    \/ Tick
    \/ RunUsage
    \/ RunRead
    \/ RunCall
    \/ RunPrint
    \/ Reinvoke

Spec == Init /\ [][Next]_vars

\* The clock moves on, and a process that can take its next step takes it.
FairSpec ==
    /\ Spec
    /\ WF_vars(Tick)
    /\ WF_vars(StallLeave)
    /\ WF_vars(StallReport)

\* ------------------------------------------------------------------ claims

\* The command argument, "" when there is none.
CommandArg == IF Len(argv) > 1 THEN argv[2] ELSE ""

OnStderr(k) == \E i \in 1..Len(stderr) : stderr[i].kind = k

IsSuffix(a, b) ==
    /\ Len(a) <= Len(b)
    /\ SubSeq(b, Len(b) - Len(a) + 1, Len(b)) = a

\* The input was turned down before any operation ran: a notice on standard
\* error or the usage line on standard output.
InputRejected ==
    \/ stderr # <<>>
    \/ \E i \in 1..Len(stdout) : stdout[i].kind = "usage"

(* C1, as stated: every invocation of either script emits exactly one Result
   Record, only after the requested operation has completed or after input
   validation has failed; no run ends with zero records or with more than
   one. *)
C1_ExactlyOneRecord ==
    /\ NumRecords <= 1
    /\ (NumRecords = 1 => (opState = "done" \/ InputRejected))
    /\ (pc = "exited" => NumRecords = 1)

(* C1, amended: every invocation emits at most one Result Record and emits
   it only after the requested operation has completed; a run ends with
   exactly one record if and only if the operation it dispatched ran to
   completion without raising, and with none otherwise. *)
C1_AtMostOneRecord ==
    /\ NumRecords <= 1
    /\ (NumRecords = 1 => (opState = "done" /\ exc = "none"))
    /\ (pc = "exited" => (NumRecords = 1 <=> (opState = "done" /\ exc = "none")))

C1_Witness ==
    /\ pc = "exited"
    /\ NumRecords = 1
    /\ command = "ls"
    /\ err # <<>>

(* C2: the operation runner, given a command that is none of cp, ls, cat and
   stall, reports a "no command" notice, ends with a non-zero status and
   prints no Result Record. *)
C2_UnknownCommandRejected ==
    (script = "help" /\ pc = "exited" /\ CommandArg # ""
     /\ CommandArg \notin HelpCommands)
    => (OnStderr("no_command") /\ status # 0 /\ NumRecords = 0)

(* C3: the operation runner, given no command argument, writes a notice on
   standard error, exits with status -1, starts none of the operations,
   reads no environment variable and prints nothing on standard output. *)
C3_NoCommand ==
    (script = "help" /\ Len(argv) <= 1)
    => /\ pc \in {"main", "exited"}
       /\ started = <<>>
       /\ envReads = {}
       /\ opState = "none"
       /\ stdout = <<>>
       /\ (pc = "exited"
           => (stderr = <<NoCommandLine>> /\ status = -1 /\ exc = "none"))

C3_Witness == script = "help" /\ Len(argv) <= 1 /\ pc = "exited" /\ status = -1

(* C4: when the operation runner dispatched cp, ls, cat or stall and the
   operation ran to completion, the exit status is 0, also when the external
   command wrote to its error stream: that text is on no stream of the
   process but in the output field of the one Result Record. *)
C4_ExitZero ==
    (script = "help" /\ pc = "exited" /\ opState = "done" /\ exc = "none")
    => /\ status = 0
       /\ stderr = <<>>
       /\ Len(stdout) = 1
       /\ stdout[1].kind = "record"
       /\ (err # <<>> => IsSuffix(Utf8Text(err), stdout[1].output))

C4_Witness ==
    /\ script = "help"
    /\ pc = "exited"
    /\ command = "cp"
    /\ err # <<>>
    /\ status = 0
    /\ NumRecords = 1

(* C5: the output field as a function of the captured output and error text:
   for cp, "success" if err is empty and "Stderr:\n" + err otherwise; for ls
   and cat, out (or "<no output>" when out is empty), followed by
   "\n\nStderr:\n" + err if and only if err is not empty. *)
C5_OutputField ==
    (script = "help" /\ NumRecords = 1 /\ command \in {"cp", "ls", "cat"})
    => /\ command = "cp"
          => stdout[1].output =
                 IF err = <<>> THEN Success ELSE StderrHead \o Utf8Text(err)
       /\ command \in {"ls", "cat"}
          => stdout[1].output =
                 (IF out # <<>> THEN Utf8Text(out) ELSE NoOutput)
                 \o (IF err # <<>> THEN StderrTail \o Utf8Text(err) ELSE <<>>)

C5_Witness ==
    /\ script = "help"
    /\ NumRecords = 1
    /\ command = "cat"
    /\ out = <<>>
    /\ err # <<>>
    /\ stdout[1].output = NoOutput \o StderrTail \o Utf8Text(err)

\* stall(n) with an integer n: what holds at every moment.
StallSafe ==
    (command = "stall" /\ n_seconds.kind = "int")
    => /\ (opState = "done" => clock - now >= n_seconds.num)
       /\ (NumRecords = 1 => opState = "done")
       /\ (n_seconds.num <= 0 => iters = 0)
       /\ (pc = "exited" /\ opState = "done"
           => (status = 0 /\ stdout = <<Record(Success)>>))

StallEntered == pc = "stall_loop" /\ n_seconds.kind = "int"

StallReturned ==
    /\ pc = "exited"
    /\ status = 0
    /\ stdout = <<Record(Success)>>
    /\ clock - now >= n_seconds.num

(* C6: for every integer n, stall(n) neither prints its record nor returns
   before n seconds have passed on the clock since it was entered, for
   n <= 0 it performs no iteration of the wait, and once entered it
   eventually returns 0 with output "success". *)
C6_Stall == [](StallSafe) /\ (StallEntered ~> StallReturned)

C6_Witness ==
    /\ command = "stall"
    /\ n_seconds.kind = "int"
    /\ n_seconds.num > 0
    /\ now > 0
    /\ iters > 0
    /\ StallReturned

HasSurrogate(s) == \E i \in 1..Len(s) : IsSurrogate(s[i])

(* C7: the round trip of run.py: for every text s that UTF-8 can encode,
   encode(s) returns, and decode of what encode printed prints s again;
   encode("hello") is "aGVsbG8=" and decode("aGVsbG8=") is "hello". *)
C7_RoundTrip ==
    /\ (script = "run" /\ pc = "exited" /\ command = "encode"
        /\ env.INPUT.set /\ ~HasSurrogate(env.INPUT.text))
       => (status = 0 /\ NumRecords = 1)
    /\ (chainFrom.set /\ pc = "exited")
       => (exc = "none" /\ status = 0 /\ stdout = <<Record(chainFrom.text)>>)
    /\ (script = "run" /\ pc = "exited" /\ command = "encode" /\ value = Hello)
       => stdout = <<Record(HelloB64)>>
    /\ (script = "run" /\ pc = "exited" /\ command = "decode"
        /\ value = HelloB64)
       => stdout = <<Record(Hello)>>

C7_Witness ==
    /\ chainFrom.set
    /\ chainFrom.text = <<8364, 10>>
    /\ pc = "exited"
    /\ stdout = <<Record(<<8364, 10>>)>>

(* C8: the encode/decode runner, given no command, a command other than
   encode and decode, or no input value, prints the usage line on standard
   output, exits with status 1, does not read INPUT, runs neither function
   and prints no Result Record. *)
C8_UsageOnBadCall ==
    (script = "run" /\ pc = "exited" /\ (NoFunction(argv) \/ ~env.INPUT.set))
    => /\ stdout = <<UsageLine>>
       /\ status = 1
       /\ "INPUT" \notin envReads
       /\ opState = "none"

(* C9: a recognised command of the operation runner, invoked while one of
   the environment variables it requires is absent, does not attempt the
   operation and does not end through an unhandled exception. *)
C9_MissingInputHandled ==
    (script = "help" /\ pc = "exited" /\ CommandArg \in HelpCommands
     /\ \E v \in Required("help", CommandArg) : ~env[v].set)
    => (started = <<>> /\ opState = "none" /\ exc = "none")

NsUnparsed ==
    /\ script = "help"
    /\ CommandArg = "stall"
    /\ env.NSECONDS.set
    /\ ~ParseInt(env.NSECONDS.text).ok

(* C10: stall with an NSECONDS that int() refuses: the parse notice is
   written on standard error and the run goes on: stall is entered with the
   text as it was read. *)
C10_ParseFailureFallsThrough ==
    NsUnparsed
    => /\ pc \in {"main", "dispatch", "stall", "stall_loop", "exited"}
       /\ pc \in {"stall", "stall_loop", "exited"}
          => /\ stderr # <<>>
             /\ stderr[1] = ParseErrorLine(env.NSECONDS.text)
             /\ n_seconds = StrValue(env.NSECONDS.text)
       /\ pc \in {"stall_loop", "exited"} => opState = "running"

C10_Witness ==
    /\ NsUnparsed
    /\ pc = "stall_loop"
    /\ n_seconds.kind = "str"
    /\ OnStderr("parse_error")

====
